---- MODULE Spec2Model ----
(***************************************************************************)
(* The frame/batch orchestration of deploy/pphuman/pipeline.py:            *)
(* Pipeline (input parsing, predictor construction, run), Result (the      *)
(* keyed result store) and PipePredictor (predict_image, predict_video,    *)
(* visualize_image, visualize_video).                                      *)
(*                                                                         *)
(* Python exceptions are modelled by the terminal position pc = "error"    *)
(* with exc naming the exception type and the source line that raises.     *)
(* Names the module neither defines nor imports (KeyPointDetector,         *)
(* KeyPointCollector, ActionDetector, mtmct_process) raise NameError where *)
(* they are evaluated; PipePredictor has no method get_valid_instance, so  *)
(* the call at line 401 raises AttributeError.                             *)
(***************************************************************************)
EXTENDS Integers, Sequences, FiniteSets, TLC

\* Bounds of the model.
MaxImages == 3
MaxBatch == 2
MaxBoxes == 1
MaxFrames == 3
MaxStreams == 2

\* self.warmup_frame = 1 (PipePredictor.__init__).
warmup_frame == 1

VARIABLES
    args,          \* Pipeline(...) arguments: which input sources are given
    cfg,           \* the config: ATTR and ACTION present, visual, DET batch_size
    pc,            \* control position
    exc,           \* the exception that ended the run, [type, line]
    is_video,      \* Pipeline.is_video
    multi_camera,  \* Pipeline.multi_camera
    input,         \* Pipeline.input: number of images, or number of captures
    nPred,         \* number of PipePredictor instances constructed
    with_attr,     \* PipePredictor.with_attr (the same in every predictor)
    with_action,   \* PipePredictor.with_action
    cur,           \* index of the predictor whose run is in progress
    tick,          \* i of predict_image / frame_id of predict_video
    batch,         \* batch_file of the current image tick (image indices)
    tick_res,      \* the local det_res (image) / mot_res (video) of the tick
    res,           \* per predictor: pipeline_res.res_dict
    timer,         \* per predictor: pipe_timer
    calls,         \* per predictor: stage predictor invocations so far
    detCalls,      \* the batches handed to det_predictor.predict_image
    released,      \* per predictor: writer.release() calls
    written,       \* per predictor: writer.write() calls
    infoCalls,     \* per predictor: pipe_timer.info() calls
    multi_res,     \* Pipeline.run's multi_res (predictor indices)
    stop_requested \* an external stop request (the code has no reader of it)

vars == <<args, cfg, pc, exc, is_video, multi_camera, input, nPred, with_attr,
          with_action, cur, tick,
          batch, tick_res, res, timer, calls, detCalls, released, written,
          infoCalls, multi_res, stop_requested>>

NoExc == [type |-> "none", line |-> 0]

Raise(type, line) == [type |-> type, line |-> line]

Min(a, b) == IF a < b THEN a ELSE b

Max(a, b) == IF a > b THEN a ELSE b

RECURSIVE SumSeq(_)
SumSeq(s) == IF s = <<>> THEN 0 ELSE Head(s) + SumSeq(Tail(s))

RECURSIVE Concat(_)
Concat(ss) == IF ss = <<>> THEN <<>> ELSE Head(ss) \o Concat(Tail(ss))

\* input[start:end] of a Python list, 0-based, end exclusive, on the list
\* <<1, ..., n>> of image references.
Slice(s, start, end) == SubSeq(s, start + 1, Min(end, Len(s)))

Images(n) == [k \in 1..n |-> k]

(***************************************************************************)
(* Pipeline._parse_input                                                   *)
(***************************************************************************)
ParseInputNoRaise(a) ==
    IF a.image_file \/ a.image_dir
      THEN [raised |-> FALSE, is_video |-> FALSE, multi_camera |-> FALSE]
    ELSE IF a.video_file # "None"
      THEN [raised |-> FALSE, is_video |-> TRUE,
            multi_camera |-> (a.video_file = "list")]
    ELSE [raised |-> FALSE, is_video |-> TRUE,
          multi_camera |-> (a.camera_id = "seq")]

\* _parse_input leaving multi_camera unset for a sequence of camera ids.
ParseInputCameraSingle(a) ==
    IF a.image_file \/ a.image_dir
      THEN [raised |-> FALSE, is_video |-> FALSE, multi_camera |-> FALSE]
    ELSE IF a.video_file # "None"
      THEN [raised |-> FALSE, is_video |-> TRUE,
            multi_camera |-> (a.video_file = "list")]
    ELSE IF a.camera_id # "-1"
      THEN [raised |-> FALSE, is_video |-> TRUE, multi_camera |-> FALSE]
    ELSE [raised |-> TRUE, is_video |-> FALSE, multi_camera |-> FALSE]

ParseInput(a) ==
    IF a.image_file \/ a.image_dir
      THEN [raised |-> FALSE, is_video |-> FALSE, multi_camera |-> FALSE]
    ELSE IF a.video_file # "None"
      THEN [raised |-> FALSE, is_video |-> TRUE,
            multi_camera |-> (a.video_file = "list")]
    ELSE IF a.camera_id # "-1"
      THEN [raised |-> FALSE, is_video |-> TRUE,
            multi_camera |-> (a.camera_id = "seq")]
    ELSE [raised |-> TRUE, is_video |-> FALSE, multi_camera |-> FALSE]

(***************************************************************************)
(* Result                                                                  *)
(***************************************************************************)
\* A dict is a function from its keys; a stored value carries the tick that
\* wrote it (at), which the program does not read.
EmptyDict == <<>>

ResultInit ==
    [det |-> EmptyDict, mot |-> EmptyDict, attr |-> EmptyDict,
     kpt |-> EmptyDict, action |-> EmptyDict]

DictUpdate(old, new) ==
    [k \in (DOMAIN old) \cup (DOMAIN new) |->
        IF k \in DOMAIN new THEN new[k] ELSE old[k]]

ResultUpdateKeepOld(r, result, name) ==
    [r EXCEPT ![name] =
        [k \in (DOMAIN @) \cup (DOMAIN result) |->
            IF k \in DOMAIN @ THEN @[k] ELSE result[k]]]

ResultUpdate(r, result, name) ==
    [r EXCEPT ![name] = DictUpdate(@, result)]

\* Result.get: the entry of a known name (never None for the five stage
\* names, which __init__ creates), None otherwise.
ResultGet(r, name) ==
    IF name \in DOMAIN r
      THEN [isNone |-> FALSE, dict |-> r[name]]
      ELSE [isNone |-> TRUE, dict |-> EmptyDict]

Stamp(d, t) == [k \in DOMAIN d |-> [val |-> d[k], at |-> t]]

(***************************************************************************)
(* PipeTimer (pipe_utils): per timer whether it runs and the start() and   *)
(* end() calls made on it; img_num                                         *)
(***************************************************************************)
TimesInit == [running |-> FALSE, starts |-> 0, n |-> 0]

PipeTimerInit ==
    [total |-> TimesInit, det |-> TimesInit, mot |-> TimesInit,
     attr |-> TimesInit, img_num |-> 0]

TimerStart(t, name) ==
    [t EXCEPT ![name].running = TRUE, ![name].starts = @ + 1]

TimerEnd(t, name) ==
    [t EXCEPT ![name].running = FALSE, ![name].n = @ + 1]

CallsInit == [det |-> 0, mot |-> 0, attr |-> 0]

(***************************************************************************)
(* Collaborators, by their interfaces: each predictor is a function of its *)
(* input and of an outcome the environment chooses (the number of boxes).  *)
(***************************************************************************)
\* det_predictor.predict_image(batch_input): counts[i] boxes for image i,
\* flat in image order, with boxes_num partitioning them.
DetectorPredict(b, counts) ==
    [boxes |-> Concat([i \in 1..Len(b) |->
                         [j \in 1..counts[i] |-> [img |-> b[i], k |-> j]]]),
     boxes_num |-> counts]

\* parse_mot_res(mot_predictor.predict_image([frame])): n tracked boxes
\* (id, xmin, ymin, xmax, ymax).
ParseMotRes(n) ==
    [boxes |-> [j \in 1..n |->
                  [id |-> j, xmin |-> j, ymin |-> j,
                   xmax |-> j + 2, ymax |-> j + 3]]]

\* crop_image_with_det: one group of crops per image, the flat boxes sliced
\* by boxes_num.
CropImageWithDet(det_res) ==
    [i \in 1..Len(det_res.boxes_num) |->
        LET off == SumSeq(SubSeq(det_res.boxes_num, 1, i - 1))
        IN  [j \in 1..det_res.boxes_num[i] |->
               [crop_of |-> det_res.boxes[off + j]]]]

\* crop_image_with_mot: one crop per tracked box.
CropImageWithMot(mot_res) ==
    [j \in 1..Len(mot_res.boxes) |-> [crop_of |-> mot_res.boxes[j]]]

\* attr_predictor.predict_image(crops): one attribute vector per crop.
AttrPredict(crops) ==
    [output |-> [j \in 1..Len(crops) |-> [attr_of |-> crops[j].crop_of]]]

(***************************************************************************)
(* Pipeline.__init__, PipePredictor.__init__                               *)
(***************************************************************************)
Provided(a) ==
    (IF a.image_file THEN 1 ELSE 0) + (IF a.image_dir THEN 1 ELSE 0)
    + (IF a.video_file # "None" THEN 1 ELSE 0)
    + (IF a.camera_id # "-1" THEN 1 ELSE 0)

\* The size of the parsed input: the image list of get_test_images, the list
\* of captures of a multi-camera source, or one capture.
InputSizes(p) ==
    IF ~p.is_video THEN 0..MaxImages
    ELSE IF p.multi_camera THEN 1..MaxStreams
    ELSE {1}

\* PipePredictor.__init__ evaluates KeyPointDetector() when the input is a
\* video and with_action is set; the module does not bind that name.
PredictorInitRaises(video) == video /\ cfg.with_action

PipelineInit ==
    /\ pc = "new"
    /\ LET p == ParseInput(args) IN
       IF p.raised
         THEN /\ pc' = "error"
              /\ exc' = Raise("ValueError", 139)
              /\ UNCHANGED <<is_video, multi_camera, input, nPred, with_attr,
                             with_action, res, timer, calls, released,
                             written, infoCalls>>
         ELSE \E n \in InputSizes(p) :
              /\ is_video' = p.is_video
              /\ multi_camera' = p.multi_camera
              /\ input' = n
              /\ IF PredictorInitRaises(p.is_video)
                   THEN /\ pc' = "error"
                        /\ exc' = Raise("NameError", 273)
                        /\ UNCHANGED <<nPred, with_attr, with_action, res,
                                       timer, calls, released, written,
                                       infoCalls>>
                   ELSE /\ pc' = "constructed"
                        /\ exc' = exc
                        /\ nPred' = IF p.multi_camera THEN n ELSE 1
                        /\ with_attr' = cfg.with_attr
                        /\ with_action' = cfg.with_action
                        /\ res' = [q \in 1..nPred' |-> ResultInit]
                        /\ timer' = [q \in 1..nPred' |-> PipeTimerInit]
                        /\ calls' = [q \in 1..nPred' |-> CallsInit]
                        /\ released' = [q \in 1..nPred' |-> 0]
                        /\ written' = [q \in 1..nPred' |-> 0]
                        /\ infoCalls' = [q \in 1..nPred' |-> 0]
    /\ UNCHANGED <<args, cfg, cur, tick, batch, tick_res, detCalls, multi_res,
                   stop_requested>>

(***************************************************************************)
(* Pipeline.run, PipePredictor.run                                         *)
(***************************************************************************)
PipelineRun ==
    /\ pc = "constructed"
    /\ pc' = "run_pred"
    /\ cur' = 1
    /\ multi_res' = <<>>
    /\ UNCHANGED <<args, cfg, with_attr, with_action, exc, is_video, multi_camera, input, nPred, tick,
                   batch, tick_res, res, timer, calls, detCalls, released,
                   written, infoCalls, stop_requested>>

\* run dispatches on is_video; predict_video opens the writer and sets
\* frame_id = 0, predict_image starts its range at i = 0.
PredictorRun ==
    /\ pc = "run_pred"
    /\ pc' = IF is_video THEN "vid_read" ELSE "img_loop"
    /\ tick' = 0
    /\ batch' = <<>>
    /\ tick_res' = EmptyDict
    /\ UNCHANGED <<args, cfg, with_attr, with_action, exc, is_video, multi_camera, input, nPred, cur,
                   res, timer, calls, detCalls, released, written, infoCalls,
                   multi_res, stop_requested>>

\* self.pipe_timer.info(True), then back in Pipeline.run.
TimerInfo ==
    /\ pc = "info"
    /\ infoCalls' = [infoCalls EXCEPT ![cur] = @ + 1]
    /\ pc' = IF multi_camera THEN "collect" ELSE "done"
    /\ UNCHANGED <<args, cfg, with_attr, with_action, exc, is_video, multi_camera, input, nPred, cur,
                   tick, batch, tick_res, res, timer, calls, detCalls,
                   released, written, multi_res, stop_requested>>

\* res = predictor.get_result(); multi_res.append(res); next stream or fusion.
CollectResult ==
    /\ pc = "collect"
    /\ multi_res' = Append(multi_res, cur)
    /\ IF cur < nPred
         THEN /\ cur' = cur + 1
              /\ pc' = "run_pred"
         ELSE /\ cur' = cur
              /\ pc' = "fuse"
    /\ UNCHANGED <<args, cfg, with_attr, with_action, exc, is_video, multi_camera, input, nPred, tick,
                   batch, tick_res, res, timer, calls, detCalls, released,
                   written, infoCalls, stop_requested>>

\* mtmct_process(multi_res): the module does not bind the name.
MtmctProcess ==
    /\ pc = "fuse"
    /\ pc' = "error"
    /\ exc' = Raise("NameError", 153)
    /\ UNCHANGED <<args, cfg, with_attr, with_action, is_video, multi_camera, input, nPred, cur, tick,
                   batch, tick_res, res, timer, calls, detCalls, released,
                   written, infoCalls, multi_res, stop_requested>>

(***************************************************************************)
(* PipePredictor.predict_image                                             *)
(***************************************************************************)
\* math.ceil(float(n) / b)
CeilDiv(n, b) == (n + b - 1) \div b

\* for i in range(batch_loop_cnt): the slice of the batch, and the start of
\* total_time and module_time['det'] when i > warmup_frame.
ImageLoop ==
    /\ pc = "img_loop"
    /\ LET B == cfg.batch_size
           batch_loop_cnt == CeilDiv(input, B)
       IN  IF tick < batch_loop_cnt
             THEN /\ batch' = Slice(Images(input), tick * B,
                                    Min((tick + 1) * B, input))
                  /\ timer' = IF tick > warmup_frame
                                THEN [timer EXCEPT ![cur] =
                                        TimerStart(TimerStart(@, "total"), "det")]
                                ELSE timer
                  /\ pc' = "img_det"
             ELSE /\ pc' = "info"
                  /\ UNCHANGED <<batch, timer>>
    /\ UNCHANGED <<args, cfg, with_attr, with_action, exc, is_video, multi_camera, input, nPred, cur,
                   tick, tick_res, res, calls, detCalls, released, written,
                   infoCalls, multi_res, stop_requested>>

ImageDetectAlwaysAttr ==
    /\ pc = "img_det"
    /\ \E counts \in [1..Len(batch) -> 0..MaxBoxes] :
         LET det_res == DetectorPredict(batch, counts) IN
         /\ tick_res' = det_res
         /\ res' = [res EXCEPT ![cur] =
                      ResultUpdate(@, Stamp(det_res, tick), "det")]
    /\ detCalls' = Append(detCalls, batch)
    /\ calls' = [calls EXCEPT ![cur].det = @ + 1]
    /\ timer' = IF tick > warmup_frame
                  THEN [timer EXCEPT ![cur] = TimerEnd(@, "det")]
                  ELSE timer
    /\ pc' = "img_attr"
    /\ UNCHANGED <<args, cfg, with_attr, with_action, exc, is_video,
                   multi_camera, input, nPred, cur, tick, batch, released,
                   written, infoCalls, multi_res, stop_requested>>

\* det_res = self.det_predictor.predict_image(batch_input); update 'det'.
ImageDetect ==
    /\ pc = "img_det"
    /\ \E counts \in [1..Len(batch) -> 0..MaxBoxes] :
         LET det_res == DetectorPredict(batch, counts) IN
         /\ tick_res' = det_res
         /\ res' = [res EXCEPT ![cur] =
                      ResultUpdate(@, Stamp(det_res, tick), "det")]
    /\ detCalls' = Append(detCalls, batch)
    /\ calls' = [calls EXCEPT ![cur].det = @ + 1]
    /\ timer' = IF tick > warmup_frame
                  THEN [timer EXCEPT ![cur] = TimerEnd(@, "det")]
                  ELSE timer
    /\ pc' = IF with_attr THEN "img_attr" ELSE "img_end"
    /\ UNCHANGED <<args, cfg, with_attr, with_action, exc, is_video, multi_camera, input, nPred, cur,
                   tick, batch, released, written, infoCalls, multi_res,
                   stop_requested>>

\* The attr_res dict of an image tick: the per-image outputs, concatenated.
ImageAttrResSkipEmpty(crop_inputs) ==
    LET attr_res_list ==
          Concat([g \in 1..Len(crop_inputs) |->
                    AttrPredict(crop_inputs[g]).output])
    IN  IF attr_res_list = <<>> THEN EmptyDict
        ELSE [output |-> attr_res_list]

ImageAttrResReversed(crop_inputs) ==
    [output |-> Concat([g \in 1..Len(crop_inputs) |->
                          AttrPredict(crop_inputs[Len(crop_inputs) + 1 - g]).output])]

ImageAttrResLastOnly(crop_inputs) ==
    [output |-> IF crop_inputs = <<>> THEN <<>>
                ELSE AttrPredict(crop_inputs[Len(crop_inputs)]).output]

ImageAttrRes(crop_inputs) ==
    [output |-> Concat([g \in 1..Len(crop_inputs) |->
                          AttrPredict(crop_inputs[g]).output])]

\* if self.with_attr: one attr_predictor call per image of the batch.
ImageAttr ==
    /\ pc = "img_attr"
    /\ LET crop_inputs == CropImageWithDet(tick_res)
           attr_res == ImageAttrRes(crop_inputs)
       IN  /\ res' = [res EXCEPT ![cur] =
                        ResultUpdate(@, Stamp(attr_res, tick), "attr")]
           /\ calls' = [calls EXCEPT ![cur].attr = @ + Len(crop_inputs)]
    /\ timer' = IF tick > warmup_frame
                  THEN [timer EXCEPT ![cur] =
                          TimerEnd(TimerStart(@, "attr"), "attr")]
                  ELSE timer
    /\ pc' = "img_end"
    /\ UNCHANGED <<args, cfg, with_attr, with_action, exc, is_video, multi_camera, input, nPred, cur,
                   tick, batch, tick_res, detCalls, released, written,
                   infoCalls, multi_res, stop_requested>>

\* img_num += len(batch_input); total_time.end() when i > warmup_frame;
\* then visualization if configured, or the next i.
ImageTickEnd ==
    /\ pc = "img_end"
    /\ timer' = [timer EXCEPT ![cur] =
                   LET t == [@ EXCEPT !.img_num = @ + Len(batch)]
                   IN  IF tick > warmup_frame THEN TimerEnd(t, "total") ELSE t]
    /\ IF cfg.visual
         THEN /\ pc' = "img_vis"
              /\ tick' = tick
         ELSE /\ pc' = "img_loop"
              /\ tick' = tick + 1
    /\ UNCHANGED <<args, cfg, with_attr, with_action, exc, is_video, multi_camera, input, nPred, cur,
                   batch, tick_res, res, calls, detCalls, released, written,
                   infoCalls, multi_res, stop_requested>>

\* visualize_image: attr_res = result.get('attr') is the entry itself, so
\* 'attr_res is not None' holds and attr_res['output'] is read for the first
\* image of the batch.  Then, per image, os.makedirs and im.save: saved is
\* the number of images written before one of them raises an IO error (all
\* of them when none does); nothing handles the error.
VisualizeImageSkipFailedWrite ==
    /\ pc = "img_vis"
    /\ LET attr_res == ResultGet(res[cur], "attr") IN
       IF ~attr_res.isNone /\ "output" \notin DOMAIN attr_res.dict
         THEN /\ pc' = "error"
              /\ exc' = Raise("KeyError", 446)
              /\ UNCHANGED <<tick, written>>
         ELSE \E saved \in 0..Len(batch) :
              /\ written' = [written EXCEPT ![cur] = @ + saved]
              /\ pc' = "img_loop"
              /\ exc' = exc
              /\ tick' = tick + 1
    /\ UNCHANGED <<args, cfg, with_attr, with_action, is_video, multi_camera, input, nPred, cur,
                   batch, tick_res, res, timer, calls, detCalls, released,
                   infoCalls, multi_res, stop_requested>>

VisualizeImage ==
    /\ pc = "img_vis"
    /\ LET attr_res == ResultGet(res[cur], "attr") IN
       IF ~attr_res.isNone /\ "output" \notin DOMAIN attr_res.dict
         THEN /\ pc' = "error"
              /\ exc' = Raise("KeyError", 446)
              /\ UNCHANGED <<tick, written>>
         ELSE \E saved \in 0..Len(batch) :
              /\ written' = [written EXCEPT ![cur] = @ + saved]
              /\ IF saved < Len(batch)
                   THEN /\ pc' = "error"
                        /\ exc' = Raise("OSError", 453)
                        /\ tick' = tick
                   ELSE /\ pc' = "img_loop"
                        /\ exc' = exc
                        /\ tick' = tick + 1
    /\ UNCHANGED <<args, cfg, with_attr, with_action, is_video, multi_camera, input, nPred, cur,
                   batch, tick_res, res, timer, calls, detCalls, released,
                   infoCalls, multi_res, stop_requested>>

(***************************************************************************)
(* PipePredictor.predict_video                                             *)
(***************************************************************************)
\* ret, frame = capture.read(); if not ret: break, and then writer.release().
\* A capture yields at most MaxFrames frames.
VideoReadCheckAfterTrack ==
    /\ pc = "vid_read"
    /\ \E ret \in BOOLEAN :
         /\ ret => tick < MaxFrames
         /\ IF ~ret
              THEN /\ released' = [released EXCEPT ![cur] = @ + 1]
                   /\ pc' = "info"
                   /\ timer' = timer
                   /\ calls' = [calls EXCEPT ![cur].mot = @ + 1]
              ELSE /\ released' = released
                   /\ pc' = "vid_track"
                   /\ timer' = IF tick > warmup_frame
                                 THEN [timer EXCEPT ![cur] =
                                         TimerStart(TimerStart(@, "total"), "mot")]
                                 ELSE timer
                   /\ calls' = calls
    /\ UNCHANGED <<args, cfg, with_attr, with_action, exc, is_video, multi_camera, input, nPred, cur,
                   tick, batch, tick_res, res, detCalls, written,
                   infoCalls, multi_res, stop_requested>>

VideoRead ==
    /\ pc = "vid_read"
    /\ \E ret \in BOOLEAN :
         /\ ret => tick < MaxFrames
         /\ IF ~ret
              THEN /\ released' = [released EXCEPT ![cur] = @ + 1]
                   /\ pc' = "info"
                   /\ timer' = timer
              ELSE /\ released' = released
                   /\ pc' = "vid_track"
                   /\ timer' = IF tick > warmup_frame
                                 THEN [timer EXCEPT ![cur] =
                                         TimerStart(TimerStart(@, "total"), "mot")]
                                 ELSE timer
    /\ UNCHANGED <<args, cfg, with_attr, with_action, exc, is_video, multi_camera, input, nPred, cur,
                   tick, batch, tick_res, res, calls, detCalls, written,
                   infoCalls, multi_res, stop_requested>>

VideoTrackSkipAttr ==
    /\ pc = "vid_track"
    /\ \E n \in 0..MaxBoxes :
         LET mot_res == ParseMotRes(n) IN
         /\ tick_res' = mot_res
         /\ res' = [res EXCEPT ![cur] =
                      ResultUpdate(@, Stamp(mot_res, tick), "mot")]
    /\ calls' = [calls EXCEPT ![cur].mot = @ + 1]
    /\ timer' = IF tick > warmup_frame
                  THEN [timer EXCEPT ![cur] = TimerEnd(@, "mot")]
                  ELSE timer
    /\ pc' = "vid_end"
    /\ UNCHANGED <<args, cfg, with_attr, with_action, exc, is_video,
                   multi_camera, input, nPred, cur, tick, batch, detCalls,
                   released, written, infoCalls, multi_res, stop_requested>>

\* res = self.mot_predictor.predict_image([frame]); mot_res = parse_mot_res;
\* update 'mot'.  with_action is false in every constructed video predictor.
VideoTrack ==
    /\ pc = "vid_track"
    /\ \E n \in 0..MaxBoxes :
         LET mot_res == ParseMotRes(n) IN
         /\ tick_res' = mot_res
         /\ res' = [res EXCEPT ![cur] =
                      ResultUpdate(@, Stamp(mot_res, tick), "mot")]
    /\ calls' = [calls EXCEPT ![cur].mot = @ + 1]
    /\ timer' = IF tick > warmup_frame
                  THEN [timer EXCEPT ![cur] = TimerEnd(@, "mot")]
                  ELSE timer
    /\ pc' = IF with_attr THEN "vid_attr" ELSE "vid_end"
    /\ UNCHANGED <<args, cfg, with_attr, with_action, exc, is_video, multi_camera, input, nPred, cur,
                   tick, batch, detCalls, released, written, infoCalls,
                   multi_res, stop_requested>>

\* if self.with_attr: one attr_predictor call on the frame's crops.
VideoAttr ==
    /\ pc = "vid_attr"
    /\ LET crop_input == CropImageWithMot(tick_res)
           attr_res == AttrPredict(crop_input)
       IN  res' = [res EXCEPT ![cur] =
                     ResultUpdate(@, Stamp(attr_res, tick), "attr")]
    /\ calls' = [calls EXCEPT ![cur].attr = @ + 1]
    /\ timer' = IF tick > warmup_frame
                  THEN [timer EXCEPT ![cur] =
                          TimerEnd(TimerStart(@, "attr"), "attr")]
                  ELSE timer
    /\ pc' = "vid_end"
    /\ UNCHANGED <<args, cfg, with_attr, with_action, exc, is_video, multi_camera, input, nPred, cur,
                   tick, batch, tick_res, detCalls, released, written,
                   infoCalls, multi_res, stop_requested>>

\* VideoTickEnd ending total_time from frame_id = warmup_frame on, one tick
\* before it is first started.
VideoTickEndOffByOne ==
    /\ pc = "vid_end"
    /\ timer' = IF tick >= warmup_frame
                  THEN [timer EXCEPT ![cur] =
                          TimerEnd([@ EXCEPT !.img_num = @ + 1], "total")]
                  ELSE timer
    /\ tick' = tick + 1
    /\ IF multi_camera
         THEN /\ pc' = "error"
              /\ exc' = Raise("AttributeError", 401)
         ELSE /\ pc' = IF cfg.visual THEN "vid_vis" ELSE "vid_read"
              /\ exc' = exc
    /\ UNCHANGED <<args, cfg, with_attr, with_action, is_video, multi_camera, input, nPred, cur,
                   batch, tick_res, res, calls, detCalls, released, written,
                   infoCalls, multi_res, stop_requested>>

\* img_num += 1 and total_time.end() when frame_id > warmup_frame;
\* frame_id += 1; self.get_valid_instance(...) when multi_camera, a method
\* PipePredictor does not have; then visualization if configured.
VideoTickEnd ==
    /\ pc = "vid_end"
    /\ timer' = IF tick > warmup_frame
                  THEN [timer EXCEPT ![cur] =
                          TimerEnd([@ EXCEPT !.img_num = @ + 1], "total")]
                  ELSE timer
    /\ tick' = tick + 1
    /\ IF multi_camera
         THEN /\ pc' = "error"
              /\ exc' = Raise("AttributeError", 401)
         ELSE /\ pc' = IF cfg.visual THEN "vid_vis" ELSE "vid_read"
              /\ exc' = exc
    /\ UNCHANGED <<args, cfg, with_attr, with_action, is_video, multi_camera, input, nPred, cur,
                   batch, tick_res, res, calls, detCalls, released, written,
                   infoCalls, multi_res, stop_requested>>

\* boxes[:, 2] = boxes[:, 2] - boxes[:, 0]; boxes[:, 3] = boxes[:, 3] -
\* boxes[:, 1] on a view of mot_res['boxes'], the array the store holds.
PlotBoxes(bs) ==
    [j \in 1..Len(bs) |->
        [bs[j] EXCEPT !.xmax = bs[j].xmax - bs[j].xmin,
                      !.ymax = bs[j].ymax - bs[j].ymin]]

\* visualize_video, then writer.write(im).
VisualizeVideo ==
    /\ pc = "vid_vis"
    /\ res' = [res EXCEPT ![cur].mot.boxes.val = PlotBoxes(@)]
    /\ LET attr_res == ResultGet(res[cur], "attr") IN
       IF ~attr_res.isNone /\ "output" \notin DOMAIN attr_res.dict
         THEN /\ pc' = "error"
              /\ exc' = Raise("KeyError", 424)
              /\ written' = written
         ELSE /\ pc' = "vid_read"
              /\ exc' = exc
              /\ written' = [written EXCEPT ![cur] = @ + 1]
    /\ UNCHANGED <<args, cfg, with_attr, with_action, is_video, multi_camera, input, nPred, cur, tick,
                   batch, tick_res, timer, calls, detCalls, released,
                   infoCalls, multi_res, stop_requested>>

\* A stop request from outside, made while a video loop is running.
RequestStop ==
    /\ pc \in {"vid_read", "vid_track", "vid_attr", "vid_end", "vid_vis"}
    /\ ~stop_requested
    /\ stop_requested' = TRUE
    /\ UNCHANGED <<args, cfg, with_attr, with_action, pc, exc, is_video, multi_camera, input, nPred,
                   cur, tick, batch, tick_res, res, timer, calls, detCalls,
                   released, written, infoCalls, multi_res>>

(***************************************************************************)
(* The specification                                                       *)
(***************************************************************************)
Init ==
    /\ args \in [image_file : BOOLEAN, image_dir : BOOLEAN,
                 video_file : {"None", "path", "list"},
                 camera_id : {"-1", "int", "seq"}]
    /\ cfg \in [with_attr : BOOLEAN, with_action : BOOLEAN, visual : BOOLEAN,
                batch_size : 1..MaxBatch]
    /\ pc = "new"
    /\ exc = NoExc
    /\ is_video = FALSE
    /\ multi_camera = FALSE
    /\ input = 0
    /\ nPred = 0
    /\ with_attr = FALSE
    /\ with_action = FALSE
    /\ cur = 1
    /\ tick = 0
    /\ batch = <<>>
    /\ tick_res = EmptyDict
    /\ res = <<>>
    /\ timer = <<>>
    /\ calls = <<>>
    /\ detCalls = <<>>
    /\ released = <<>>
    /\ written = <<>>
    /\ infoCalls = <<>>
    /\ multi_res = <<>>
    /\ stop_requested = FALSE

Next ==
    \/ PipelineInit
    \/ PipelineRun
    \/ PredictorRun
    \/ ImageLoop
    \/ ImageDetect
    \/ ImageAttr
    \/ ImageTickEnd
    \/ VisualizeImage
    \/ VideoRead
    \/ VideoTrack
    \/ VideoAttr
    \/ VideoTickEnd
    \/ VisualizeVideo
    \/ TimerInfo
    \/ CollectResult
    \/ MtmctProcess
    \/ RequestStop

Spec == Init /\ [][Next]_vars

(***************************************************************************)
(* Properties                                                              *)
(***************************************************************************)
Terminal == pc \in {"done", "error"}

\* The positions inside a tick whose index is still tick.
InTick == {"img_det", "img_attr", "img_end", "img_vis",
           "vid_track", "vid_attr", "vid_end"}

\* ResultReady: every stage of the tick has written its result.
ResultReady == pc \in {"img_end", "vid_end"}

\* C1: in image mode and in video mode, while the tick index is at most
\* warmup_frame no timer has been started or stopped and img_num is still 0,
\* and at the head of the loop total_time holds exactly one interval per
\* completed tick beyond the warm-up.  (Image mode adds len(batch_input) to
\* img_num in every tick, the warm-up ticks included.)
C1_WarmupExcluded ==
    \A p \in 1..nPred :
        /\ (p = cur /\ Provided(args) = 1 /\ pc \in InTick
               /\ tick <= warmup_frame) =>
              /\ timer[p].img_num = 0
              /\ \A name \in {"total", "det", "mot", "attr"} :
                    timer[p][name] = TimesInit
        /\ (p = cur /\ pc \in {"img_loop", "vid_read"}) =>
              timer[p].total.n = Max(0, tick - warmup_frame - 1)

\* C2 as claimed: whenever the number of provided sources is not exactly
\* one, construction fails with the input error and builds no predictor.
C2_RejectsUnlessExactlyOne ==
    (pc # "new" /\ Provided(args) # 1) =>
        (exc = Raise("ValueError", 139) /\ nPred = 0)

\* C2 as amended: construction fails with the input error, before any
\* predictor is constructed, exactly when no source is provided; a
\* combination of sources is accepted and resolved by precedence
\* (image_file or image_dir, then video_file, then camera_id).
C2_RejectsOnlyNoInput ==
    pc # "new" =>
        /\ (exc.type = "ValueError") <=> (Provided(args) = 0)
        /\ exc.type = "ValueError" => (pc = "error" /\ nPred = 0)
        /\ Provided(args) >= 1 =>
              /\ is_video = ~(args.image_file \/ args.image_dir)
              /\ multi_camera =
                    /\ is_video
                    /\ IF args.video_file # "None"
                         THEN args.video_file = "list"
                         ELSE args.camera_id = "seq"

C2_NoInputRejected ==
    /\ Provided(args) = 0
    /\ pc = "error"
    /\ exc = Raise("ValueError", 139)
    /\ nPred = 0

\* The batches of a list of n images under batch size b, in input order.
ExpectedBatches(n, b) ==
    [i \in 1..CeilDiv(n, b) |->
        [k \in 1..(Min(i * b, n) - (i - 1) * b) |-> (i - 1) * b + k]]

\* C3: when predict_image is over, the detector has been invoked exactly
\* ceil(N/B) times, the i-th time on images [i*B, min((i+1)*B, N)) in input
\* order.
C3_DetectorBatches ==
    (~is_video /\ nPred = 1 /\ Provided(args) = 1 /\ Terminal
        /\ exc.type # "OSError") =>
        detCalls = ExpectedBatches(input, cfg.batch_size)

\* C4: a video pipeline with with_action enabled buffers keypoints per
\* identity and emits action results: the run is not ended by an exception
\* of the keypoint/action path (PipePredictor.__init__ lines 272-275,
\* predict_video lines 382-393).
C4_ActionPipelineRuns ==
    (cfg.with_action /\ Provided(args) = 1
        /\ ~(args.image_file \/ args.image_dir) /\ pc # "new") =>
        /\ exc.line \notin (272..275) \cup (382..393)
        /\ nPred >= 1

\* C5: a multi-stream run completes and yields one final result store per
\* stream, in input order.
C5_MultiStreamCompletes ==
    (multi_camera /\ ~cfg.with_action /\ Provided(args) = 1 /\ Terminal) =>
        /\ exc = NoExc
        /\ multi_res = [q \in 1..nPred |-> q]

\* C6: in multi-stream mode no multi-camera step runs inside the per-frame
\* loop of a stream, and the fusion step has run (once) when the run ends.
C6_FusionIsJoinPoint ==
    (multi_camera /\ ~cfg.with_action /\ Provided(args) = 1) =>
        /\ exc.line # 401
        /\ Terminal => (pc = "done" /\ Len(multi_res) = nPred)

\* C7: a tick in which the detector or tracker returned zero boxes, with the
\* attribute stage enabled, is at ResultReady with an 'attr' entry whose
\* output is the empty sequence written in that tick, and no exception is
\* ever raised from the stage part of a tick.
C7_EmptyAttrOnZeroBoxes ==
    /\ (ResultReady /\ cfg.with_attr /\ tick_res.boxes = <<>>) =>
          /\ "output" \in DOMAIN res[cur].attr
          /\ res[cur].attr.output = [val |-> <<>>, at |-> tick]
    /\ exc.line \notin (290..328) \cup (351..398)

C7_ZeroBoxTickReady ==
    /\ pc = "img_end"
    /\ cfg.with_attr
    /\ Len(batch) = 1
    /\ tick_res.boxes = <<>>
    /\ "output" \in DOMAIN res[cur].attr
    /\ res[cur].attr.output.val = <<>>

\* C8: with visual output enabled and the attribute stage disabled,
\* visualize_image and visualize_video complete without raising.
C8_VisualizeWithoutAttr ==
    (cfg.visual /\ ~cfg.with_attr /\ Provided(args) = 1) => exc.line \notin {424, 446}

C10_EndOfStreamAtTickStart ==
    /\ [][(is_video /\ pc # "info" /\ pc' = "info") =>
            /\ pc = "vid_read"
            /\ calls' = calls
            /\ res' = res
            /\ released' = [released EXCEPT ![cur] = 1]]_vars
    /\ [](\A p \in 1..nPred : released[p] <= 1)

C10_LoopLeftAfterTicks ==
    /\ is_video
    /\ pc = "info"
    /\ tick >= 2
    /\ released[cur] = 1

\* C10 as claimed: moreover an external stop request halts the loop at the
\* next tick boundary, so no stage is dispatched once it is made.
C10_StopRequestHalts ==
    /\ C10_EndOfStreamAtTickStart
    /\ [][(stop_requested /\ pc = "vid_read") => pc' # "vid_track"]_vars

\* C11 as claimed: an IO error of a tick's visualization/write step does not
\* propagate out of the run.
C11_WriteErrorContained ==
    ~(pc = "error" /\ exc.type = "OSError")

\* C11 as amended: an IO error raised by the write step of visualize_image
\* ends the run at that tick: the images after the failing one are not
\* saved, no later batch is detected, and every tick that completed its
\* visualization saved all of its images.
C11_WriteErrorEndsRun ==
    /\ exc.type = "OSError" =>
          /\ pc = "error"
          /\ Len(detCalls) = tick + 1
          /\ written[cur] < Min((tick + 1) * cfg.batch_size, input)
          /\ infoCalls[cur] = 0
    /\ (~is_video /\ cfg.visual /\ pc = "img_loop") =>
          written[cur] = Min(tick * cfg.batch_size, input)

C11_WriteErrorBeforeLastBatch ==
    /\ exc = Raise("OSError", 453)
    /\ pc = "error"
    /\ tick >= 1
    /\ tick + 1 < CeilDiv(input, cfg.batch_size)

C13_StagesFixedAtConstruction ==
    /\ [][pc # "new" => (with_attr' = with_attr /\ with_action' = with_action)]_vars
    /\ [](nPred >= 1 =>
            /\ with_attr = cfg.with_attr
            /\ with_action = cfg.with_action
            /\ \A p \in 1..nPred :
                  /\ calls[p].attr > 0 => with_attr
                  /\ DOMAIN res[p].attr # {} => with_attr
                  /\ (DOMAIN res[p].kpt # {} \/ DOMAIN res[p].action # {})
                        => with_action
            /\ ResultReady =>
                  (("output" \in DOMAIN res[cur].attr) <=> with_attr))

C13_AttrDisabledTick ==
    /\ pc = "img_end"
    /\ ~with_attr
    /\ with_action
    /\ tick >= 1
    /\ DOMAIN res[cur].attr = {}
    /\ calls[cur].attr = 0

\* The offset of image i of a batch in the flat box sequence.
Offset(num, i) == SumSeq(SubSeq(num, 1, i - 1))

\* C14: in image mode with the attribute stage, at ResultReady the attribute
\* predictor has been invoked once per image processed so far (the images
\* without boxes included), and the tick's 'attr' output is, image after
\* image in batch order, one attribute vector per box of that image.
C14_AttrPerImage ==
    (pc = "img_end" /\ with_attr) =>
        LET out == res[cur].attr.output.val
            num == tick_res.boxes_num
        IN  /\ calls[cur].attr = Min((tick + 1) * cfg.batch_size, input)
            /\ calls[cur].attr = SumSeq([i \in 1..Len(detCalls) |->
                                           Len(detCalls[i])])
            /\ Len(num) = Len(batch)
            /\ Len(out) = SumSeq(num)
            /\ \A i \in 1..Len(batch) : \A j \in 1..num[i] :
                  out[Offset(num, i) + j].attr_of.img = batch[i]

C14_BatchWithEmptyImage ==
    /\ pc = "img_end"
    /\ with_attr
    /\ Len(batch) = 2
    /\ tick_res.boxes_num = <<0, 1>>
    /\ Len(res[cur].attr.output.val) = 1
    /\ calls[cur].attr = 2

\* C15: at ResultReady with the attribute stage, the stored attribute output
\* has one entry per stored box, the j-th for the j-th box: in image mode
\* its length is len(det boxes) = sum(boxes_num) and its slice at the running
\* boxes_num offsets is the attributes of that image's boxes; in video mode
\* its length is the number of track boxes.
C15_AttrAlignedWithBoxes ==
    (ResultReady /\ with_attr) =>
        LET out == res[cur].attr.output.val IN
        IF is_video
          THEN LET bx == res[cur].mot.boxes.val IN
               /\ Len(out) = Len(bx)
               /\ \A j \in 1..Len(bx) : out[j].attr_of = bx[j]
          ELSE LET bx == res[cur].det.boxes.val
                   num == res[cur].det.boxes_num.val
               IN  /\ Len(out) = Len(bx)
                   /\ Len(bx) = SumSeq(num)
                   /\ \A i \in 1..Len(num) :
                        SubSeq(out, Offset(num, i) + 1, Offset(num, i) + num[i])
                          = [j \in 1..num[i] |->
                               [attr_of |-> [img |-> batch[i], k |-> j]]]

C15_TwoImagesWithBoxes ==
    /\ pc = "img_end"
    /\ with_attr
    /\ res[cur].det.boxes_num.val = <<1, 1>>
    /\ Len(res[cur].attr.output.val) = 2

\* The invocation counter of the stage that writes a store entry ('kpt' and
\* 'action' have no stage that is ever invoked).
WriterCalls(c, name) ==
    IF name \in {"det", "mot", "attr"} THEN c[name] ELSE 0

\* C16: a step changes a store entry only if it invokes that entry's stage
\* predictor, and then leaves the other four entries unchanged; in image
\* mode 'mot', 'kpt' and 'action' stay empty, in video mode 'det' stays empty.
C16_SingleWriter ==
    /\ [][(pc # "new" /\ with_attr) =>
            \A p \in 1..nPred :
                \A name \in {"det", "mot", "attr", "kpt", "action"} :
                    res'[p][name] # res[p][name] =>
                        /\ WriterCalls(calls'[p], name) > WriterCalls(calls[p], name)
                        /\ \A other \in {"det", "mot", "attr", "kpt", "action"} \ {name} :
                              res'[p][other] = res[p][other]]_vars
    /\ [](\A p \in 1..nPred :
            IF is_video
              THEN DOMAIN res[p].det = {}
              ELSE /\ DOMAIN res[p].mot = {}
                   /\ DOMAIN res[p].kpt = {}
                   /\ DOMAIN res[p].action = {})

\* C17: visualize_image and visualize_video leave every entry of the store
\* as the stages wrote it (stated for runs with the attribute stage enabled,
\* where the overlay finds every entry it reads).
C17_VisualizationReadsOnly ==
    [][(pc \in {"img_vis", "vid_vis"} /\ with_attr) => (res' = res)]_vars

\* The timers of a PipeTimer that are running.
Running(t) == {name \in {"total", "det", "mot", "attr"} : t[name].running}

C19_ModeFlags ==
    (pc # "new" /\ exc.type # "ValueError") =>
        /\ Provided(args) = 1 =>
              /\ is_video <=> (args.video_file # "None" \/ args.camera_id # "-1")
              /\ multi_camera <=>
                    (args.video_file = "list" \/ args.camera_id = "seq")
        /\ multi_camera => is_video
        /\ exc.type # "NameError" \/ exc.line # 273 =>
              /\ multi_camera => nPred = input
              /\ ~multi_camera => nPred = 1

\* A Pipeline constructed from a sequence of two camera ids.
C19_TwoCameras ==
    /\ pc = "constructed"
    /\ Provided(args) = 1
    /\ args.camera_id = "seq"
    /\ multi_camera
    /\ nPred = 2

\* C20: a single-source run of a constructed predictor does not abort (a
\* failed write of a rendered image aside), and when it is over predict_image
\* has made its ceil(N/B) iterations, predict_video has released the writer,
\* and pipe_timer.info has been called exactly once.
C20_RunReportsTiming ==
    (nPred >= 1 /\ ~multi_camera /\ Provided(args) = 1 /\ Terminal
        /\ exc.type # "OSError") =>
        /\ pc = "done"
        /\ infoCalls[cur] = 1
        /\ is_video => released[cur] = 1
        /\ ~is_video => tick = CeilDiv(input, cfg.batch_size)

====
